---------------------------- MODULE Spec2Model ----------------------------
(***************************************************************************)
(* A model of extract.py, the card extractor that mines JSON out of the    *)
(* JavaScript bundles of a Nuxt site.  Each component of the pipeline is   *)
(* modelled from its source and exercised by a specification of its own:   *)
(*                                                                         *)
(*   SpecDedup      the seen/unique_rows loop at the end of main           *)
(*   SpecSlice      _balanced_slice                                        *)
(*   SpecClassify   _looks_like_card_obj and _contains_skill_hint          *)
(*   SpecWalk       extract_card_rows_from_any                             *)
(*   SpecReader     iter_candidate_jsons_from_js                           *)
(*   SpecNormalize  normalize_card_obj and to_int                          *)
(*   SpecFetch      fetch and fetch_many (thread pool)                     *)
(*   SpecMain       main and discover_assets_and_payload                   *)
(*                                                                         *)
(* Python values are tagged records: [t |-> "null"], [t |-> "bool", ...],  *)
(* [t |-> "int", n |-> ...], [t |-> "float", ...], [t |-> "str", s |-> a   *)
(* sequence of characters or lexical chunks], [t |-> "list", items |-> a   *)
(* sequence of values], [t |-> "dict", items |-> a sequence of <<key,      *)
(* value>> pairs in insertion order].                                      *)
(***************************************************************************)
EXTENDS Integers, Sequences, FiniteSets, TLC

VARIABLES
    pc,            \* position of the component under test
    rows,          \* main: rows, the records of every source in processing order
    unique_rows,   \* main: unique_rows
    rerun_rows,    \* the dedup loop applied to unique_rows once more
    src,           \* _balanced_slice: src
    start_idx,     \* _balanced_slice: start_idx
    sliced,        \* _balanced_slice: the returned slice, or None
    obj,           \* _looks_like_card_obj / normalize_card_obj: obj
    accepted,      \* _looks_like_card_obj: the returned boolean
    value,         \* extract_card_rows_from_any: value
    walk_rows,     \* extract_card_rows_from_any: rows, appended to by the walk
    js_text,       \* iter_candidate_jsons_from_js: js_text
    candidates,    \* iter_candidate_jsons_from_js: the values yielded, in order
    card,          \* normalize_card_obj: the CardRow returned
    raised,        \* an exception escaped the function under test
    urls,          \* fetch_many: urls
    max_workers,   \* fetch_many: max_workers
    out,           \* fetch_many: out, as a sequence of <<url, text or None>>
    fut,           \* fetch_many: per url, the state of its future
    attempt,       \* fetch: per url, the number of attempts made
    got,           \* per url, whether some attempt succeeded (history)
    order,         \* fetch_many: the urls in the order as_completed yielded them
    run            \* main: the record of one run

dedupVars  == <<rows, unique_rows, rerun_rows>>
sliceVars  == <<src, start_idx, sliced>>
objVars    == <<obj, accepted, card>>
walkVars   == <<value, walk_rows>>
readerVars == <<js_text, candidates>>
fetchVars  == <<urls, max_workers, out, fut, attempt, got, order>>
vars == <<pc, rows, unique_rows, rerun_rows, src, start_idx, sliced, obj,
          accepted, value, walk_rows, js_text, candidates, card, raised,
          urls, max_workers, out, fut, attempt, got, order, run>>

-----------------------------------------------------------------------------
(* Python values *)

None == [t |-> "null"]
PyInt(n) == [t |-> "int", n |-> n]
PyBool(b) == [t |-> "bool", b |-> b]
PyStr(s) == [t |-> "str", s |-> s]
PyList(items) == [t |-> "list", items |-> items]
PyDict(items) == [t |-> "dict", items |-> items]

\* The variables of the components a specification does not exercise.
IdleDedup  == rows = <<>> /\ unique_rows = <<>> /\ rerun_rows = <<>>
IdleSlice  == src = <<>> /\ start_idx = 0 /\ sliced = None
IdleObj    == obj = None /\ accepted = FALSE /\ card = None
IdleWalk   == value = None /\ walk_rows = <<>>
IdleReader == js_text = <<>> /\ candidates = <<>>
IdleFetch  == /\ urls = <<>> /\ max_workers = 0 /\ out = <<>> /\ fut = <<>>
              /\ attempt = <<>> /\ got = <<>> /\ order = <<>>
IdleMain   == run = None

-----------------------------------------------------------------------------
(* Merge/Dedup: main, lines 458-466 *)

MaxRows == 4

\* A CardRow (lines 81-96); last_seen is the wall clock and is left out.
CardRow(id, title, member, rarity, ap_cost, smile, pure, cool, mental, skill_code, center_skill_code, center_trait_code, source_asset) ==
    [t |-> "row", id |-> id, title |-> title, member |-> member, rarity |-> rarity,
     ap_cost |-> ap_cost, smile |-> smile, pure |-> pure, cool |-> cool,
     mental |-> mental, skill_code |-> skill_code,
     center_skill_code |-> center_skill_code,
     center_trait_code |-> center_trait_code, source_asset |-> source_asset]

\* The records the dedup loop is fed: they differ in one key field each, or
\* only in fields outside the key (source_asset, smile).
RowPool ==
    LET R(id, title, member, rarity, ap, smile, asset) ==
            CardRow(id, title, member, rarity, ap, smile, None, None, None,
                    None, None, None, asset)
    IN  { R(PyStr(<<"1">>), PyStr(<<"A">>), PyStr(<<"M">>), PyStr(<<"R">>), PyInt(1), PyInt(10), "a.js"),
          R(PyStr(<<"1">>), PyStr(<<"A">>), PyStr(<<"M">>), PyStr(<<"R">>), PyInt(1), PyInt(20), "b.js"),
          R(None,         PyStr(<<"A">>), PyStr(<<"M">>), PyStr(<<"R">>), PyInt(1), PyInt(10), "a.js"),
          R(PyStr(<<"1">>), PyStr(<<"B">>), PyStr(<<"M">>), PyStr(<<"R">>), PyInt(1), PyInt(10), "a.js"),
          R(PyStr(<<"1">>), PyStr(<<"A">>), None,         PyStr(<<"R">>), PyInt(1), PyInt(10), "b.js"),
          R(PyStr(<<"1">>), PyStr(<<"A">>), PyStr(<<"M">>), None,         PyInt(1), PyInt(10), "b.js"),
          R(PyStr(<<"1">>), PyStr(<<"A">>), PyStr(<<"M">>), PyStr(<<"R">>), None,   PyInt(10), "a.js") }

\* key = (r.id, r.title, r.member, r.rarity, r.ap_cost)   (line 462)
KeyWithoutCost(r) == <<r.id, r.title, r.member, r.rarity>>
Key(r) == <<r.id, r.title, r.member, r.rarity, r.ap_cost>>

\* A loop that forgets a key once it has dropped a duplicate of it.
RECURSIVE DedupLoopForgetful(_, _, _, _)
DedupLoopForgetful(rs, i, seen, unique) ==
    IF i > Len(rs) THEN unique
    ELSE IF Key(rs[i]) \in seen
         THEN DedupLoopForgetful(rs, i + 1, seen \ {Key(rs[i])}, unique)
         ELSE DedupLoopForgetful(rs, i + 1, seen \cup {Key(rs[i])},
                                 Append(unique, rs[i]))

\* for r in rows: ... (lines 461-466), from index i on.
RECURSIVE DedupLoop(_, _, _, _)
DedupLoop(rs, i, seen, unique) ==
    IF i > Len(rs) THEN unique
    ELSE IF Key(rs[i]) \in seen
         THEN DedupLoop(rs, i + 1, seen, unique)
         ELSE DedupLoop(rs, i + 1, seen \cup {Key(rs[i])}, Append(unique, rs[i]))

\* seen = set(); unique_rows = []; the loop   (lines 459-466)
Dedup(rs) == DedupLoop(rs, 1, {}, <<>>)

InitDedup ==
    /\ pc = "rows"
    /\ rows \in UNION {[1..n -> RowPool] : n \in 0..MaxRows}
    /\ unique_rows = <<>> /\ rerun_rows = <<>>
    /\ IdleSlice /\ IdleObj /\ IdleWalk /\ IdleReader /\ IdleFetch /\ IdleMain
    /\ raised = FALSE

MainDedup ==
    /\ pc = "rows"
    /\ unique_rows' = Dedup(rows)
    /\ pc' = "deduped"
    /\ UNCHANGED <<rows, rerun_rows, sliceVars, objVars, walkVars, readerVars,
                   fetchVars, raised, run>>

\* The same pass over the already deduplicated sequence.
DedupAgain ==
    /\ pc = "deduped"
    /\ rerun_rows' = Dedup(unique_rows)
    /\ pc' = "rerun"
    /\ UNCHANGED <<rows, unique_rows, sliceVars, objVars, walkVars, readerVars,
                   fetchVars, raised, run>>

NextDedup == MainDedup \/ DedupAgain
SpecDedup == InitDedup /\ [][NextDedup]_vars

\* The key the claim names, written out.
IdentityOf(r) == <<r.id, r.title, r.member, r.rarity, r.ap_cost>>
FirstIdx == {i \in 1..Len(rows) :
                \A j \in 1..(i - 1) : IdentityOf(rows[j]) # IdentityOf(rows[i])}
NthFirstIdx(k) == CHOOSE i \in FirstIdx : Cardinality({j \in FirstIdx : j < i}) = k - 1

\* C1: after the dedup loop the output holds exactly one record per distinct
\* key (id, title, member, rarity, ap_cost) of the input; it is the first input
\* record with that key, whole (source_asset and the other fields included),
\* and the kept records stand in input order.
C1_DedupKeepsFirst ==
    pc \in {"deduped", "rerun"} =>
        /\ Len(unique_rows) = Cardinality(FirstIdx)
        /\ \A k \in 1..Len(unique_rows) : unique_rows[k] = rows[NthFirstIdx(k)]
        /\ \A i \in 1..Len(rows) :
               Cardinality({k \in 1..Len(unique_rows) :
                               IdentityOf(unique_rows[k]) = IdentityOf(rows[i])}) = 1

\* A later record with a seen key and a different source_asset was dropped,
\* and a record after it was kept.
C1_Witness ==
    /\ pc = "deduped"
    /\ Len(rows) = 3 /\ Len(unique_rows) = 2
    /\ IdentityOf(rows[1]) = IdentityOf(rows[2])
    /\ rows[1].source_asset # rows[2].source_asset
    /\ unique_rows = <<rows[1], rows[3]>>

\* C2: the dedup pass is idempotent: over its own output it returns that
\* output, same records in the same order.
C2_DedupIdempotent == pc = "rerun" => rerun_rows = unique_rows

C2_Witness ==
    /\ pc = "rerun"
    /\ Len(unique_rows) >= 2 /\ Len(unique_rows) < Len(rows)
    /\ rerun_rows = unique_rows

-----------------------------------------------------------------------------
(* Bracket-balanced extractor: _balanced_slice, lines 223-239 *)
(* A text is a sequence of one-character strings; Python's index i is      *)
(* position i + 1 here.                                                    *)

MaxSrcLen == 5

SliceAlphabet == {"[", "]", "\"", "'", "\\", "a"}

\* [1, "a]b", {2}]
QuotedBracketText ==
    <<"[", "1", ",", " ", "\"", "a", "]", "b", "\"", ",", " ", "{", "2", "}", "]">>

\* depth = 0; in_str = False; esc = False; quote = ''   (line 224)
ScanStart == [depth |-> 0, in_str |-> FALSE, esc |-> FALSE, quote |-> "", hit |-> FALSE]

\* A scanner that does not honour the backslash inside a string.
ScanStepNoEscape(st, ch, open_ch, close_ch) ==
    IF st.in_str
    THEN IF ch = st.quote THEN [st EXCEPT !.in_str = FALSE] ELSE st
    ELSE IF ch \in {"'", "\""} THEN [st EXCEPT !.in_str = TRUE, !.quote = ch]
         ELSE IF ch = open_ch THEN [st EXCEPT !.depth = @ + 1]
         ELSE IF ch = close_ch
              THEN [st EXCEPT !.depth = @ - 1, !.hit = (st.depth - 1 = 0)]
              ELSE st

\* One turn of the while loop on character ch (lines 226-237); hit is set
\* when the turn returns the slice.
ScanStep(st, ch, open_ch, close_ch) ==
    IF st.in_str
    THEN IF st.esc THEN [st EXCEPT !.esc = FALSE]
         ELSE IF ch = "\\" THEN [st EXCEPT !.esc = TRUE]
         ELSE IF ch = st.quote THEN [st EXCEPT !.in_str = FALSE]
         ELSE st
    ELSE IF ch \in {"'", "\""} THEN [st EXCEPT !.in_str = TRUE, !.quote = ch]
         ELSE IF ch = open_ch THEN [st EXCEPT !.depth = @ + 1]
         ELSE IF ch = close_ch
              THEN [st EXCEPT !.depth = @ - 1, !.hit = (st.depth - 1 = 0)]
              ELSE st

\* while i < len(src): ...; return None   (lines 225-239)
RECURSIVE ScanFrom(_, _, _, _, _, _)
ScanFrom(s, start, open_ch, close_ch, i, st) ==
    IF i > Len(s) THEN None
    ELSE LET st2 == ScanStep(st, s[i], open_ch, close_ch)
         IN  IF st2.hit THEN PyStr(SubSeq(s, start, i))
             ELSE ScanFrom(s, start, open_ch, close_ch, i + 1, st2)

balanced_slice(s, start, open_ch, close_ch) ==
    ScanFrom(s, start, open_ch, close_ch, start, ScanStart)

InitSlice ==
    /\ pc = "src"
    /\ src \in UNION {[1..n -> SliceAlphabet] : n \in 1..MaxSrcLen} \cup {QuotedBracketText}
    /\ start_idx = 0 /\ sliced = None
    /\ IdleDedup /\ IdleObj /\ IdleWalk /\ IdleReader /\ IdleFetch /\ IdleMain
    /\ raised = FALSE

\* The call of line 254: every "[" of the text is a start.
BalancedSlice ==
    /\ pc = "src"
    /\ \E start \in 1..Len(src) :
          /\ src[start] = "["
          /\ start_idx' = start
          /\ sliced' = balanced_slice(src, start, "[", "]")
    /\ pc' = "sliced"
    /\ UNCHANGED <<src, dedupVars, objVars, walkVars, readerVars, fetchVars, raised, run>>

NextSlice == BalancedSlice
SpecSlice == InitSlice /\ [][NextSlice]_vars

\* The claim's reading of the text from start_idx on: Lex[i] tells whether
\* position i lies inside a string literal (and is therefore inert), given the
\* quote that opened the literal and whether a backslash precedes it.
Lex ==
    LET L[i \in start_idx..Len(src)] ==
            IF i = start_idx
            THEN [inside |-> FALSE, by |-> "", escaped |-> FALSE]
            ELSE LET p == L[i - 1]
                     c == src[i - 1]
                 IN  IF p.inside
                     THEN IF p.escaped THEN [p EXCEPT !.escaped = FALSE]
                          ELSE IF c = "\\" THEN [p EXCEPT !.escaped = TRUE]
                          ELSE IF c = p.by
                               THEN [inside |-> FALSE, by |-> "", escaped |-> FALSE]
                               ELSE p
                     ELSE IF c \in {"'", "\""}
                          THEN [inside |-> TRUE, by |-> c, escaped |-> FALSE]
                          ELSE p
    IN  L
DepthAfter(i) ==
    Cardinality({j \in start_idx..i : ~Lex[j].inside /\ src[j] = "["})
        - Cardinality({j \in start_idx..i : ~Lex[j].inside /\ src[j] = "]"})
Closers == {i \in start_idx..Len(src) : DepthAfter(i) = 0}

\* C3: from an opening bracket, _balanced_slice returns the text from there
\* through the first position where the depth, counted over brackets outside
\* string literals only, is back to zero, and None when the text ends first;
\* [1, "a]b", {2}] from its first character comes back whole.
C3_BalancedSlice ==
    pc = "sliced" =>
        /\ IF Closers = {} THEN sliced = None
           ELSE sliced = PyStr(SubSeq(src, start_idx,
                                      CHOOSE i \in Closers : \A j \in Closers : i <= j))
        /\ (src = QuotedBracketText /\ start_idx = 1) => sliced = PyStr(QuotedBracketText)

C3_Witness ==
    /\ pc = "sliced" /\ src = QuotedBracketText /\ start_idx = 1
    /\ sliced = PyStr(QuotedBracketText)

-----------------------------------------------------------------------------
(* Record classifier: _contains_skill_hint and _looks_like_card_obj,       *)
(* lines 302-328.  The text of a classified value is a sequence of chunks: *)
(* a chunk is one of the hint texts, in some letter case, or text that     *)
(* holds no hint; "h in s" is then "h is a chunk of s".                    *)

MaxKeys == 3

\* lines 68-71
SKILL_DSL_HINTS ==
    {"ap_up (", "score_up (", "vol_buff (", "score_buff (", "vol_up (", "reset ()",
     "splice ()", "appeal_up (", "ap_reduce (", "cooltime_reduce ("}

\* line 72; the eleven member names, romanised (花帆, さやか, 梢, 綴理, 瑠璃乃,
\* 慈, 吟子, 小鈴, 姫芽, セラス, 泉).
MEMBER_HINTS ==
    {"Kaho", "Sayaka", "Kozue", "Tsuzuri", "Rurino", "Megumi", "Ginko", "Kosuzu",
     "Hime", "Ceras", "Izumi"}

\* The keys and values of dict.keys() and dict.values(), in insertion order.
KeysOf(d) == {d.items[i][1] : i \in 1..Len(d.items)}
ValuesOf(d) == {d.items[i][2] : i \in 1..Len(d.items)}

\* dict.get(key): the value under key, None when the key is missing.
Get(d, key) ==
    IF key \in KeysOf(d)
    THEN d.items[CHOOSE i \in 1..Len(d.items) : d.items[i][1] = key][2]
    ELSE None

RECURSIVE Flatten(_)
Flatten(ss) == IF ss = <<>> THEN <<>> ELSE Head(ss) \o Flatten(Tail(ss))

\* str(v): a string is itself; a number, None and a boolean print as one
\* chunk; a list prints its items' repr between brackets, a dict its keys
\* and values between braces (repr of a string is the string in quotes).
RECURSIVE py_str(_)
py_repr(v) == IF v.t = "str" THEN <<"'">> \o v.s \o <<"'">> ELSE py_str(v)
py_str(v) ==
    CASE v.t = "str"   -> v.s
      [] v.t = "null"  -> <<"None">>
      [] v.t = "bool"  -> IF v.b THEN <<"True">> ELSE <<"False">>
      [] v.t = "int"   -> <<ToString(v.n)>>
      [] v.t = "float" -> <<v.text>>
      [] v.t = "list"  ->
            <<"[">> \o Flatten([i \in 1..Len(v.items) |-> py_repr(v.items[i])]) \o <<"]">>
      [] v.t = "dict"  ->
            <<"{">> \o Flatten([i \in 1..Len(v.items) |->
                                   <<"'", v.items[i][1], "': ">> \o py_repr(v.items[i][2])])
                    \o <<"}">>

\* str.lower(), chunk by chunk.
LowerChunk(c) ==
    CASE c = "AP_UP ("    -> "ap_up ("
      [] c = "Score_Up (" -> "score_up ("
      [] c = "None"       -> "none"
      [] c = "True"       -> "true"
      [] c = "False"      -> "false"
      [] c = "Kaho"       -> "kaho"
      [] c = "X"          -> "x"
      [] OTHER            -> c
lower(s) == [i \in 1..Len(s) |-> LowerChunk(s[i])]

\* h in s
Contains(s, h) == \E i \in 1..Len(s) : s[i] = h

\* lines 302-308; str(v) does not fail on a parsed JSON value.
contains_skill_hint(v) ==
    LET s_lower == lower(py_str(v))
    IN  \E h \in SKILL_DSL_HINTS : Contains(s_lower, h)

\* A classifier whose title-like keys weigh 1.
looks_like_card_obj_light_title(o) ==
    IF o.t # "dict" \/ o.items = <<>> THEN FALSE
    ELSE LET keys == KeysOf(o)
             score == (IF keys \cap {"title", "name", "cardName"} # {} THEN 1 ELSE 0)
                    + (IF keys \cap {"member", "idol", "character"} # {} THEN 2 ELSE 0)
                    + (IF keys \cap {"smile", "pure", "cool", "mental", "hp"} # {} THEN 1 ELSE 0)
                    + (IF keys \cap {"skill_code", "skill", "skillText", "centerSkill"} # {}
                       THEN 1 ELSE 0)
                    + (IF \E v \in ValuesOf(o) : contains_skill_hint(v) THEN 1 ELSE 0)
                    + (IF \E v \in ValuesOf(o) :
                             v.t = "str" /\ \E m \in MEMBER_HINTS : Contains(v.s, m)
                       THEN 1 ELSE 0)
         IN  score >= 3

\* lines 310-328
looks_like_card_obj(o) ==
    IF o.t # "dict" \/ o.items = <<>> THEN FALSE
    ELSE LET keys == KeysOf(o)
             title_like  == keys \cap {"title", "name", "cardName"} # {}
             member_like == keys \cap {"member", "idol", "character"} # {}
             stats_like  == keys \cap {"smile", "pure", "cool", "mental", "hp"} # {}
             skill_like  == keys \cap {"skill_code", "skill", "skillText", "centerSkill"} # {}
             hint_like   == \E v \in ValuesOf(o) : contains_skill_hint(v)
             member_hint == \E v \in ValuesOf(o) :
                                v.t = "str" /\ \E m \in MEMBER_HINTS : Contains(v.s, m)
             score == (IF title_like THEN 2 ELSE 0) + (IF member_like THEN 2 ELSE 0)
                    + (IF stats_like THEN 1 ELSE 0) + (IF skill_like THEN 1 ELSE 0)
                    + (IF hint_like THEN 1 ELSE 0) + (IF member_hint THEN 1 ELSE 0)
         IN  score >= 3

\* The keys and the values the classified mappings are built from.
ClassifyKeys == <<"title", "member", "smile", "skill", "foo", "bar">>
ClassifyValues ==
    { PyInt(10), PyStr(<<"X">>),
      PyStr(<<"ap_up (", "1)">>), PyStr(<<"AP_UP (", "1)">>), PyStr(<<"Kaho">>),
      PyList(<<PyStr(<<"score_up (", "2)">>)>>), PyList(<<PyStr(<<"Kaho">>)>>) }

\* The mapping holding key ClassifyKeys[i] with value f[i] for the i in DOMAIN f.
RECURSIVE ItemsFrom(_, _, _)
ItemsFrom(keys, f, i) ==
    IF i > Len(keys) THEN <<>>
    ELSE (IF i \in DOMAIN f THEN << <<keys[i], f[i]>> >> ELSE <<>>) \o ItemsFrom(keys, f, i + 1)

InitClassify ==
    /\ pc = "obj"
    /\ \E ks \in SUBSET (1..Len(ClassifyKeys)) :
          /\ Cardinality(ks) <= MaxKeys
          /\ \E f \in [ks -> ClassifyValues] : obj = PyDict(ItemsFrom(ClassifyKeys, f, 1))
    /\ accepted = FALSE /\ card = None
    /\ IdleDedup /\ IdleSlice /\ IdleWalk /\ IdleReader /\ IdleFetch /\ IdleMain
    /\ raised = FALSE

LooksLikeCardObj ==
    /\ pc = "obj"
    /\ accepted' = looks_like_card_obj(obj)
    /\ pc' = "classified"
    /\ UNCHANGED <<obj, card, dedupVars, sliceVars, walkVars, readerVars, fetchVars,
                   raised, run>>

NextClassify == LooksLikeCardObj
SpecClassify == InitClassify /\ [][NextClassify]_vars

\* The four key terms of the score, as the claim states them.
KeyScore ==
    LET keys == KeysOf(obj)
    IN  (IF \E k \in {"title", "name", "cardName"} : k \in keys THEN 2 ELSE 0)
      + (IF \E k \in {"member", "idol", "character"} : k \in keys THEN 2 ELSE 0)
      + (IF \E k \in {"smile", "pure", "cool", "mental", "hp"} : k \in keys THEN 1 ELSE 0)
      + (IF \E k \in {"skill_code", "skill", "skillText", "centerSkill"} : k \in keys
         THEN 1 ELSE 0)
StringValues == {v \in ValuesOf(obj) : v.t = "str"}
MemberHintTerm ==
    IF \E v \in StringValues : \E m \in MEMBER_HINTS : Contains(v.s, m) THEN 1 ELSE 0

\* C4 as stated: the mapping is accepted exactly when the score is at least
\* 3, the two hint terms counting string values only (a hint inside a
\* non-string value adds nothing); the DSL hints are looked for in any
\* letter case.
C4_Original ==
    pc = "classified" =>
        (accepted <=>
            KeyScore
            + (IF \E v \in StringValues : \E h \in SKILL_DSL_HINTS : Contains(lower(v.s), h)
               THEN 1 ELSE 0)
            + MemberHintTerm >= 3)

\* C4 as amended: the mapping is accepted exactly when the score is at least
\* 3, where the skill-hint term is 1 when the printed text of any value,
\* string or not, lower-cased, holds a DSL hint, and the member-hint term is 1
\* when a string value holds a member name; {title, member, smile} is
\* accepted and {foo, bar} is rejected.
C4_ScoreThreshold ==
    pc = "classified" =>
        /\ accepted <=>
              KeyScore
              + (IF \E v \in ValuesOf(obj) :
                       \E h \in SKILL_DSL_HINTS : Contains(lower(py_str(v)), h)
                 THEN 1 ELSE 0)
              + MemberHintTerm >= 3
        /\ KeysOf(obj) = {"title", "member", "smile"} => accepted
        /\ KeysOf(obj) = {"foo", "bar"} => ~accepted

\* A mapping accepted on its title key and a DSL hint held in a list value.
C4_Witness ==
    /\ pc = "classified" /\ accepted
    /\ KeysOf(obj) = {"title", "foo"}
    /\ Get(obj, "title") = PyInt(10)
    /\ Get(obj, "foo") = PyList(<<PyStr(<<"score_up (", "2)">>)>>)

-----------------------------------------------------------------------------
(* Record normaliser: normalize_card_obj and to_int, lines 268-300.  The   *)
(* strings of this component are sequences of characters.                  *)

\* A float: its value truncated toward zero, whether it is finite (not inf
\* or nan), and how it prints.
PyFloat(n, finite, text) == [t |-> "float", n |-> n, finite |-> finite, text |-> text]

\* An exception, returned in place of a value.
Raise(exc) == [t |-> "exc", exc |-> exc]

\* bool(v): what "or" tests.
Truthy(v) ==
    CASE v.t = "null"  -> FALSE
      [] v.t = "bool"  -> v.b
      [] v.t = "int"   -> v.n # 0
      [] v.t = "float" -> ~v.finite \/ v.n # 0 \/ v.text # "0.0"
      [] v.t = "str"   -> v.s # <<>>
      [] v.t = "list"  -> v.items # <<>>
      [] v.t = "dict"  -> v.items # <<>>

\* a or b or c: the first truthy operand, the last one when none is.
Or2(a, b) == IF Truthy(a) THEN a ELSE b
Or3(a, b, c) == IF Truthy(a) THEN a ELSE IF Truthy(b) THEN b ELSE c

Digits == {"0", "1", "2", "3", "4", "5", "6", "7", "8", "9"}
DigitVal(c) == CHOOSE n \in 0..9 : ToString(n) = c

RECURSIVE Strip(_)
Strip(s) ==
    IF s = <<>> THEN s
    ELSE IF Head(s) = " " THEN Strip(Tail(s))
    ELSE IF s[Len(s)] = " " THEN Strip(SubSeq(s, 1, Len(s) - 1))
    ELSE s

RECURSIVE DigitsValue(_)
DigitsValue(d) ==
    IF d = <<>> THEN 0 ELSE 10 * DigitsValue(SubSeq(d, 1, Len(d) - 1)) + DigitVal(d[Len(d)])

\* int(x): the integer, or the exception int raises.
py_int(x) ==
    CASE x.t = "int"   -> PyInt(x.n)
      [] x.t = "bool"  -> PyInt(IF x.b THEN 1 ELSE 0)
      [] x.t = "float" -> IF x.finite THEN PyInt(x.n) ELSE Raise("OverflowError")
      [] x.t = "str"   ->
            LET b == Strip(x.s)
                signed == b # <<>> /\ b[1] \in {"-", "+"}
                d == IF signed THEN Tail(b) ELSE b
            IN  IF d = <<>> \/ \E i \in 1..Len(d) : d[i] \notin Digits
                THEN Raise("ValueError")
                ELSE PyInt(IF signed /\ b[1] = "-" THEN 0 - DigitsValue(d) ELSE DigitsValue(d))
      [] OTHER         -> Raise("TypeError")

\* A to_int that catches ValueError only.
to_int_value_error_only(x) ==
    LET r == py_int(x)
    IN  IF r.t = "exc" /\ r.exc = "ValueError" THEN None ELSE r

\* lines 279-283: try: return int(x); except Exception: return None
to_int(x) ==
    LET r == py_int(x)
    IN  IF r.t = "exc" THEN None ELSE r

\* str(x) if x is not None else None   (lines 286-289, 295-297)
StrOrNone(x) == IF x # None THEN PyStr(py_str(x)) ELSE None

\* lines 268-300; an exception raised while a field is computed leaves the
\* function in place of the row.
normalize_card_obj(o, source_asset) ==
    LET title == Or3(Get(o, "title"), Get(o, "name"), Get(o, "cardName"))
        member == Or3(Get(o, "member"), Get(o, "idol"), Get(o, "character"))
        rarity == Or3(Get(o, "rarity"), Get(o, "rar"), Get(o, "type"))
        ap_cost == Or3(Get(o, "ap_cost"), Get(o, "ap"), Get(o, "cost"))
        smile == Get(o, "smile")
        pure == Get(o, "pure")
        cool == Get(o, "cool")
        mental == Or2(Get(o, "mental"), Get(o, "hp"))
        skill_code == Or3(Get(o, "skill_code"), Get(o, "skill"), Get(o, "skillText"))
        center_skill_code == Or2(Get(o, "center_skill_code"), Get(o, "centerSkill"))
        center_trait_code == Or2(Get(o, "center_trait_code"), Get(o, "centerTrait"))
        ints == <<to_int(ap_cost), to_int(smile), to_int(pure), to_int(cool), to_int(mental)>>
    IN  IF \E i \in 1..5 : ints[i].t = "exc"
        THEN ints[CHOOSE i \in 1..5 : ints[i].t = "exc" /\ \A j \in 1..(i - 1) : ints[j].t # "exc"]
        ELSE CardRow(StrOrNone(Get(o, "id")), StrOrNone(title), StrOrNone(member),
                     StrOrNone(rarity), ints[1], ints[2], ints[3], ints[4], ints[5],
                     StrOrNone(skill_code), StrOrNone(center_skill_code),
                     StrOrNone(center_trait_code), source_asset)

\* The keys and the JSON values the normalised mappings are built from.
NormalizeKeys == <<"title", "name", "ap_cost", "cost", "smile", "hp">>
NormalizeValues ==
    { None, PyBool(FALSE), PyInt(0), PyInt(5), PyStr(<<>>), PyStr(<<" ", "7">>), PyStr(<<"a">>),
      PyFloat(3, TRUE, "3.7"), PyFloat(0, FALSE, "inf"), PyList(<<>>) }

InitNormalize ==
    /\ pc = "obj"
    /\ \E ks \in SUBSET (1..Len(NormalizeKeys)) :
          /\ Cardinality(ks) <= MaxKeys
          /\ \E f \in [ks -> NormalizeValues] : obj = PyDict(ItemsFrom(NormalizeKeys, f, 1))
    /\ accepted = FALSE /\ card = None
    /\ IdleDedup /\ IdleSlice /\ IdleWalk /\ IdleReader /\ IdleFetch /\ IdleMain
    /\ raised = FALSE

NormalizeCardObj ==
    /\ pc = "obj"
    /\ LET r == normalize_card_obj(obj, "a.js")
       IN  /\ raised' = (r.t = "exc")
           /\ card' = IF r.t = "exc" THEN None ELSE r
    /\ pc' = "normalized"
    /\ UNCHANGED <<obj, accepted, dedupVars, sliceVars, walkVars, readerVars, fetchVars, run>>

NextNormalize == NormalizeCardObj
SpecNormalize == InitNormalize /\ [][NextNormalize]_vars

\* The value of the first alias, in priority order, that is present with a
\* non-null value; None when there is none.
RECURSIVE FirstNonAbsent(_, _)
FirstNonAbsent(o, aliases) ==
    IF aliases = <<>> THEN None
    ELSE IF Get(o, Head(aliases)) # None THEN Get(o, Head(aliases))
    ELSE FirstNonAbsent(o, Tail(aliases))

\* C7: every aliased field of the row comes from the first alias, in priority
\* order, whose value is not absent, values such as 0, the empty string or
\* false included.
C7_FirstNonAbsentAlias ==
    (pc = "normalized" /\ ~raised) =>
        /\ card.title = StrOrNone(FirstNonAbsent(obj, <<"title", "name", "cardName">>))
        /\ card.member = StrOrNone(FirstNonAbsent(obj, <<"member", "idol", "character">>))
        /\ card.rarity = StrOrNone(FirstNonAbsent(obj, <<"rarity", "rar", "type">>))
        /\ card.ap_cost = to_int(FirstNonAbsent(obj, <<"ap_cost", "ap", "cost">>))
        /\ card.mental = to_int(FirstNonAbsent(obj, <<"mental", "hp">>))
        /\ card.skill_code = StrOrNone(FirstNonAbsent(obj, <<"skill_code", "skill", "skillText">>))
        /\ card.center_skill_code =
               StrOrNone(FirstNonAbsent(obj, <<"center_skill_code", "centerSkill">>))
        /\ card.center_trait_code =
               StrOrNone(FirstNonAbsent(obj, <<"center_trait_code", "centerTrait">>))

\* The values int() accepts: integers, booleans, finite floats and strings
\* that spell an integer.
SpellsInteger(s) ==
    \E i \in 1..Len(s) : \E j \in i..Len(s) :
        /\ \A k \in i..j : s[k] \in Digits
        /\ \A k \in (j + 1)..Len(s) : s[k] = " "
        /\ \A k \in 1..(i - 1) : s[k] = " " \/ (k = i - 1 /\ s[k] \in {"+", "-"})
Convertible(v) ==
    \/ v.t \in {"int", "bool"}
    \/ v.t = "float" /\ v.finite
    \/ v.t = "str" /\ SpellsInteger(v.s)

\* C8: normalize_card_obj raises nothing, and in the row it returns each of
\* ap_cost, smile, pure, cool and mental is an integer or absent; a value that
\* does not convert to an integer gives an absent field.
C8_NumericOrAbsent ==
    pc = "normalized" =>
        /\ ~raised
        /\ card # None
        /\ \A x \in {card.ap_cost, card.smile, card.pure, card.cool, card.mental} :
               x = None \/ (x.t = "int" /\ x.n \in Int)
        /\ ~Convertible(Get(obj, "smile")) => card.smile = None
        /\ Convertible(Get(obj, "smile")) => card.smile # None

\* A row built from a mapping whose smile is a list and whose hp is inf.
C8_Witness ==
    /\ pc = "normalized" /\ ~raised
    /\ Get(obj, "smile") = PyList(<<>>) /\ Get(obj, "hp") = PyFloat(0, FALSE, "inf")
    /\ Get(obj, "ap_cost") = PyStr(<<" ", "7">>)
    /\ card.smile = None /\ card.mental = None /\ card.ap_cost = PyInt(7)

-----------------------------------------------------------------------------
(* Recursive walk: extract_card_rows_from_any, lines 330-355 *)

MaxHead == 4
MaxJunk == 7

IsDict(v) == v.t = "dict"
IsCard(v) == v.t = "dict" /\ looks_like_card_obj(v)

\* rows.append(normalize_card_obj(d, source_asset)) inside try/except
\* (lines 333-336, 348-351): the rows appended.
TryAppend(d, source_asset) ==
    LET r == normalize_card_obj(d, source_asset)
    IN  IF r.t = "exc" THEN <<>> ELSE <<r>>

Max(a, b) == IF a >= b THEN a ELSE b

\* A walk that asks for more qualifying mappings than the threshold.
RecordListStrict(dicts, hit) == Len(dicts) >= 3 /\ hit > Max(3, Len(dicts) \div 3)

\* len(dicts) >= 3 and hit >= max(3, len(dicts) // 3)   (lines 343-345)
RecordList(dicts, hit) == Len(dicts) >= 3 /\ hit >= Max(3, Len(dicts) \div 3)

\* The rows the call appends to rows, in order.
RECURSIVE extract_card_rows_from_any(_, _)
extract_card_rows_from_any(v, source_asset) ==
    IF v.t = "dict"
    THEN (IF looks_like_card_obj(v) THEN TryAppend(v, source_asset) ELSE <<>>)
         \o Flatten([i \in 1..Len(v.items) |->
                        extract_card_rows_from_any(v.items[i][2], source_asset)])
    ELSE IF v.t = "list"
    THEN LET dicts == SelectSeq(v.items, IsDict)
             hit == Len(SelectSeq(dicts, IsCard))
         IN  IF RecordList(dicts, hit)
             THEN Flatten([i \in 1..Len(dicts) |->
                              IF looks_like_card_obj(dicts[i])
                              THEN TryAppend(dicts[i], source_asset) ELSE <<>>])
             ELSE Flatten([i \in 1..Len(v.items) |->
                              extract_card_rows_from_any(v.items[i], source_asset)])
    ELSE <<>>

\* The elements of the walked sequences: a card, a card holding another card,
\* a mapping that is no card but holds one, a number, a list holding a card.
TitledCard(title) ==
    PyDict(<< <<"title", PyStr(<<title>>)>>, <<"member", PyStr(<<"M">>)>> >>)
JunkDict == PyDict(<< <<"foo", TitledCard("J")>> >>)
WalkElements ==
    { TitledCard("A"),
      PyDict(<< <<"title", PyStr(<<"P">>)>>, <<"member", PyStr(<<"M">>)>>,
                <<"sub", TitledCard("C")>> >>),
      JunkDict,
      PyInt(1),
      PyList(<<TitledCard("L")>>) }

\* A sequence of up to MaxHead elements followed by up to MaxJunk mappings
\* that are no cards.
InitWalk ==
    /\ pc = "value"
    /\ \E head \in UNION {[1..n -> WalkElements] : n \in 0..MaxHead} :
          \E k \in 0..MaxJunk :
              value = PyList(head \o [i \in 1..k |-> JunkDict])
    /\ walk_rows = <<>>
    /\ IdleDedup /\ IdleSlice /\ IdleObj /\ IdleReader /\ IdleFetch /\ IdleMain
    /\ raised = FALSE

ExtractCardRowsFromAny ==
    /\ pc = "value"
    /\ walk_rows' = walk_rows \o extract_card_rows_from_any(value, "a.js")
    /\ pc' = "walked"
    /\ UNCHANGED <<value, dedupVars, sliceVars, objVars, readerVars, fetchVars, raised, run>>

NextWalk == ExtractCardRowsFromAny
SpecWalk == InitWalk /\ [][NextWalk]_vars

\* The positions of the sequence holding a mapping, and those holding a
\* mapping that qualifies on its own.
DictIdx == {i \in 1..Len(value.items) : value.items[i].t = "dict"}
QualIdx == {i \in DictIdx : looks_like_card_obj(value.items[i])}
NthOf(idx, k) == CHOOSE i \in idx : Cardinality({j \in idx : j < i}) = k - 1

\* The rows of a sequence taken as a record list: its qualifying mappings,
\* in order, nothing inside them.
IsRecordListOutput ==
    LET q == QualIdx
    IN  /\ Len(walk_rows) = Cardinality(q)
        /\ \A k \in 1..Len(walk_rows) :
               walk_rows[k] = normalize_card_obj(value.items[NthOf(q, k)], "a.js")
\* The rows of a sequence walked element by element.
IsRecursionOutput ==
    walk_rows = Flatten([i \in 1..Len(value.items) |->
                            extract_card_rows_from_any(value.items[i], "a.js")])

-----------------------------------------------------------------------------
(* Candidate reader: iter_candidate_jsons_from_js, lines 216-262.  A text  *)
(* is a sequence of characters, with the call prefix JSON.parse( as one    *)
(* element; the texts of this component hold no white space, so the \s* of *)
(* the patterns match the empty text.                                      *)

MaxChunks == 4

Fail == [ok |-> FALSE]
Parsed(v, next) == [ok |-> TRUE, v |-> v, next |-> next]

\* A JSON string from the character after its opening quote: the characters
\* up to the closing quote, \" and \\ unescaped; any other escape of these
\* texts is invalid.
RECURSIVE ParseString(_, _, _)
ParseString(s, i, acc) ==
    IF i > Len(s) THEN Fail
    ELSE IF s[i] = "\"" THEN Parsed(acc, i + 1)
    ELSE IF s[i] = "\\"
         THEN IF i + 1 <= Len(s) /\ s[i + 1] \in {"\"", "\\"}
              THEN ParseString(s, i + 2, Append(acc, s[i + 1]))
              ELSE Fail
    ELSE ParseString(s, i + 1, Append(acc, s[i]))

\* The end of the run of digits starting at i.
RECURSIVE DigitsEnd(_, _)
DigitsEnd(s, i) == IF i <= Len(s) /\ s[i] \in Digits THEN DigitsEnd(s, i + 1) ELSE i

\* obj[key] = v on the item list of a dict: a repeated key keeps its place
\* and takes the new value.
SetItem(items, key, v) ==
    IF \E i \in 1..Len(items) : items[i][1] = key
    THEN [i \in 1..Len(items) |-> IF items[i][1] = key THEN <<key, v>> ELSE items[i]]
    ELSE Append(items, <<key, v>>)

\* The strict JSON grammar over these texts: arrays, objects, strings and
\* unsigned integers.
RECURSIVE ParseValue(_, _)
RECURSIVE ParseElements(_, _, _)
RECURSIVE ParseMembers(_, _, _)
ParseElements(s, i, acc) ==
    LET r == ParseValue(s, i)
    IN  IF ~r.ok \/ r.next > Len(s) THEN Fail
        ELSE IF s[r.next] = "," THEN ParseElements(s, r.next + 1, Append(acc, r.v))
        ELSE IF s[r.next] = "]" THEN Parsed(PyList(Append(acc, r.v)), r.next + 1)
        ELSE Fail
ParseMembers(s, i, acc) ==
    IF i > Len(s) \/ s[i] # "\"" THEN Fail
    ELSE LET k == ParseString(s, i + 1, <<>>)
         IN  IF ~k.ok \/ k.next > Len(s) \/ s[k.next] # ":" THEN Fail
             ELSE LET r == ParseValue(s, k.next + 1)
                  IN  IF ~r.ok \/ r.next > Len(s) THEN Fail
                      ELSE IF s[r.next] = ","
                           THEN ParseMembers(s, r.next + 1, SetItem(acc, k.v, r.v))
                      ELSE IF s[r.next] = "}"
                           THEN Parsed(PyDict(SetItem(acc, k.v, r.v)), r.next + 1)
                      ELSE Fail
ParseValue(s, i) ==
    IF i > Len(s) THEN Fail
    ELSE IF s[i] = "["
         THEN IF i + 1 <= Len(s) /\ s[i + 1] = "]" THEN Parsed(PyList(<<>>), i + 2)
              ELSE ParseElements(s, i + 1, <<>>)
    ELSE IF s[i] = "{"
         THEN IF i + 1 <= Len(s) /\ s[i + 1] = "}" THEN Parsed(PyDict(<<>>), i + 2)
              ELSE ParseMembers(s, i + 1, <<>>)
    ELSE IF s[i] = "\""
         THEN LET r == ParseString(s, i + 1, <<>>)
              IN  IF r.ok THEN Parsed(PyStr(r.v), r.next) ELSE Fail
    ELSE IF s[i] \in Digits
         THEN LET e == DigitsEnd(s, i)
              IN  IF s[i] = "0" /\ e > i + 1 THEN Fail
                  ELSE Parsed(PyInt(DigitsValue(SubSeq(s, i, e - 1))), e)
    ELSE Fail

\* json.loads(s): the value, or ValueError when s is not one JSON text.
json_loads(s) ==
    LET r == ParseValue(s, 1)
    IN  IF r.ok /\ r.next = Len(s) + 1 THEN r.v ELSE Raise("ValueError")

\* _decode_js_string_literal (lines 219-221): json.loads of the body between
\* double quotes; the result is the string's characters.
decode_js_string_literal(raw) ==
    LET r == json_loads(<<"\"">> \o raw \o <<"\"">>)
    IN  IF r.t = "str" THEN r.s ELSE Raise("ValueError")

\* The body of JSON_PARSE_CALL_RE (line 216) from position i, the opening
\* quote being q: (?:\\.|(?!\1).)* followed by the quote and ")", tried as
\* the regex engine tries it (an escape pair first, then a plain character,
\* then the end of the body).  The position of the closing quote, 0 if none.
RECURSIVE BodyEnd(_, _, _)
BodyEnd(s, i, q) ==
    IF i > Len(s) THEN 0
    ELSE LET pair == IF s[i] = "\\" /\ i + 1 <= Len(s) THEN BodyEnd(s, i + 2, q) ELSE 0
         IN  IF pair # 0 THEN pair
             ELSE LET one == IF s[i] # q THEN BodyEnd(s, i + 1, q) ELSE 0
                  IN  IF one # 0 THEN one
                      ELSE IF s[i] = q /\ i + 1 <= Len(s) /\ s[i + 1] = ")" THEN i
                      ELSE 0

\* JSON_PARSE_CALL_RE.finditer from position i on: the bodies matched, left
\* to right, without overlap.
RECURSIVE ParseCallBodies(_, _)
ParseCallBodies(s, i) ==
    IF i > Len(s) THEN <<>>
    ELSE LET e == IF s[i] = "JSON.parse(" /\ i + 1 <= Len(s) /\ s[i + 1] \in {"\"", "'"}
                  THEN BodyEnd(s, i + 2, s[i + 1]) ELSE 0
         IN  IF e # 0 THEN <<SubSeq(s, i + 2, e - 1)>> \o ParseCallBodies(s, e + 2)
             ELSE ParseCallBodies(s, i + 1)

\* \s, and the class [\w\-\: ] of line 257.
IsSpace(c) == c \in {" "}
KeyClassAnything(c) == c # "\""
KeyClass(c) ==
    c \in Digits \cup {"k", "a", "b", "_", "-", ":", " "}

\* re.search(r'"\s*[\w\-\: ]+"\s*:', sliced)   (line 257)
KeyPatternFound(s) ==
    \E i \in 1..Len(s) : \E j \in (i + 2)..Len(s) :
        /\ s[i] = "\"" /\ s[j] = "\""
        /\ \E a \in (i + 1)..(j - 1) :
              /\ \A k \in (i + 1)..(a - 1) : IsSpace(s[k])
              /\ \A k \in a..(j - 1) : KeyClass(s[k])
        /\ \E c \in (j + 1)..Len(s) :
              /\ s[c] = ":"
              /\ \A k \in (j + 1)..(c - 1) : IsSpace(s[k])

\* Strategy 1 (lines 243-249): what the bodies yield.
RECURSIVE FromParseCalls(_)
FromParseCalls(bodies) ==
    IF bodies = <<>> THEN <<>>
    ELSE LET decoded == decode_js_string_literal(Head(bodies))
             v == IF decoded = Raise("ValueError") THEN decoded ELSE json_loads(decoded)
         IN  (IF v.t = "exc" THEN <<>> ELSE <<[strategy |-> 1, at |-> 0, v |-> v]>>)
             \o FromParseCalls(Tail(bodies))

\* Strategy 2 (lines 252-262) from position i on: what the "[" yield.
RECURSIVE FromBalancedArrays(_, _)
FromBalancedArrays(s, i) ==
    IF i > Len(s) THEN <<>>
    ELSE (IF s[i] # "[" THEN <<>>
          ELSE LET sl == balanced_slice(s, i, "[", "]")
               IN  IF sl = None \/ sl.s = <<>> \/ ~\E k \in 1..Len(sl.s) : sl.s[k] = "{"
                   THEN <<>>
                   ELSE IF ~KeyPatternFound(sl.s) THEN <<>>
                   ELSE LET v == json_loads(sl.s)
                        IN  IF v.t = "exc" THEN <<>>
                            ELSE <<[strategy |-> 2, at |-> i, v |-> v]>>)
         \o FromBalancedArrays(s, i + 1)

\* The values the generator yields, in order, each with the strategy and the
\* position it comes from.
iter_candidate_jsons_from_js(text) ==
    FromParseCalls(ParseCallBodies(text, 1)) \o FromBalancedArrays(text, 1)

\* The pieces the texts are put together from.
ReaderSnippets ==
    { <<"[">>, <<"]">>, <<"{", "}">>,
      <<"{", "\"", "k", "\"", ":", "1", "}">>,
      <<"{", "\"", "a", ".", "b", "\"", ":", "1", "}">>,
      <<"{", "k", ":", "1", "}">>,
      <<",", "\"", "]", "\"">>,
      <<"JSON.parse(", "\"", "[", "{", "\\", "\"", "k", "\\", "\"", ":", "1", "}", "]", "\"", ")">> }

InitReader ==
    /\ pc = "text"
    /\ \E chunks \in UNION {[1..n -> ReaderSnippets] : n \in 1..MaxChunks} :
          js_text = Flatten(chunks)
    /\ candidates = <<>>
    /\ IdleDedup /\ IdleSlice /\ IdleObj /\ IdleWalk /\ IdleFetch /\ IdleMain
    /\ raised = FALSE

IterCandidateJsonsFromJs ==
    /\ pc = "text"
    /\ candidates' = iter_candidate_jsons_from_js(js_text)
    /\ pc' = "read"
    /\ UNCHANGED <<js_text, dedupVars, sliceVars, objVars, walkVars, fetchVars, raised, run>>

NextReader == IterCandidateJsonsFromJs
SpecReader == InitReader /\ [][NextReader]_vars

\* The positions of js_text holding "[" whose balanced slice holds a "{" and
\* is valid strict JSON.
SliceAt(i) == balanced_slice(js_text, i, "[", "]")
JsonArrayStarts ==
    {i \in 1..Len(js_text) :
        /\ js_text[i] = "["
        /\ SliceAt(i) # None
        /\ \E k \in 1..Len(SliceAt(i).s) : SliceAt(i).s[k] = "{"
        /\ json_loads(SliceAt(i).s).t # "exc"}
YieldedAt(i) ==
    \E n \in 1..Len(candidates) :
        candidates[n] = [strategy |-> 2, at |-> i, v |-> json_loads(SliceAt(i).s)]

\* A double-quoted run of word characters, hyphens, colons and blanks
\* followed by a colon, somewhere in the text s.
ShowsQuotedKey(s) ==
    \E i \in 1..Len(s) : \E j \in (i + 2)..(Len(s) - 1) :
        /\ s[i] = "\"" /\ s[j] = "\"" /\ s[j + 1] = ":"
        /\ \A k \in (i + 1)..(j - 1) : s[k] \in Digits \cup {"k", "a", "b", "_", "-", ":", " "}

\* C6 as stated: every "[" whose balanced slice holds a "{" and is valid
\* strict JSON has the parse of that slice yielded by strategy (b).
C6_Original ==
    pc = "read" => \A i \in JsonArrayStarts : YieldedAt(i)

\* C6 as amended: strategy (b) yields the parse of the balanced slice of a
\* "[" exactly when the slice holds a "{", shows a double-quoted key of word
\* characters, hyphens, colons and blanks followed by a colon, and is valid
\* strict JSON; it yields nothing else, and in text order.
C6_StrictParseOfKeyedSlices ==
    pc = "read" =>
        /\ \A i \in JsonArrayStarts : YieldedAt(i) <=> ShowsQuotedKey(SliceAt(i).s)
        /\ \A n \in 1..Len(candidates) :
               candidates[n].strategy = 2 =>
                   /\ candidates[n].at \in JsonArrayStarts
                   /\ YieldedAt(candidates[n].at)
                   /\ \A m \in 1..(n - 1) :
                          candidates[m].strategy = 2 => candidates[m].at < candidates[n].at

\* [{"k":1},"]"] is yielded whole by strategy (b).
C6_Witness ==
    /\ pc = "read"
    /\ js_text = <<"[", "{", "\"", "k", "\"", ":", "1", "}", ",", "\"", "]", "\"", "]">>
    /\ candidates = <<[strategy |-> 2, at |-> 1,
                       v |-> PyList(<<PyDict(<< <<(<<"k">>), PyInt(1)>> >>), PyStr(<<"]">>)>>)]>>

-----------------------------------------------------------------------------
(* HTTP: fetch and fetch_many, lines 112-139.  The pool runs at most       *)
(* max_workers tasks at once and starts them in the order submitted; an    *)
(* attempt of fetch succeeds or fails as the network decides; as_completed *)
(* hands over the finished futures in any order.                           *)

MaxUrls == 2
MaxWorkers == 2

\* retries: int = 2   (line 112)
Retries == 2

UrlPool == {"/_nuxt/a.js", "/_nuxt/b.js", "/_nuxt/c.js"}

\* r.text of a successful GET of url u.
ResponseText(u) == PyStr(<<"text of ", u>>)

UrlSet == {urls[i] : i \in 1..Len(urls)}
Running == {u \in UrlSet : fut[u].state = "running"}
\* The first url, in submission order, whose task no worker has taken.
NextQueued ==
    LET q == {i \in 1..Len(urls) : fut[urls[i]].state = "queued"}
    IN  IF q = {} THEN 0 ELSE CHOOSE i \in q : \A j \in q : i <= j

InitFetch ==
    /\ pc = "call"
    /\ urls \in UNION {{s \in [1..n -> UrlPool] : \A i, j \in 1..n : i # j => s[i] # s[j]}
                          : n \in 0..MaxUrls}
    /\ max_workers \in 0..MaxWorkers
    /\ out = <<>> /\ order = <<>>
    /\ fut = [u \in UrlPool |-> [state |-> "none", result |-> None]]
    /\ attempt = [u \in UrlPool |-> 0]
    /\ got = [u \in UrlPool |-> FALSE]
    /\ IdleDedup /\ IdleSlice /\ IdleObj /\ IdleWalk /\ IdleReader /\ IdleMain
    /\ raised = FALSE

\* lines 127-132: out = {u: None for u in urls}; nothing more when urls is
\* empty; ThreadPoolExecutor raises ValueError when max_workers <= 0;
\* otherwise every url is submitted.
FetchManySubmit ==
    /\ pc = "call"
    /\ out' = [i \in 1..Len(urls) |-> <<urls[i], None>>]
    /\ IF urls = <<>>
       THEN pc' = "returned" /\ UNCHANGED <<fut, raised>>
       ELSE IF max_workers <= 0
       THEN pc' = "raised" /\ raised' = TRUE /\ UNCHANGED fut
       ELSE /\ pc' = "pool"
            /\ fut' = [u \in UrlPool |->
                          IF u \in UrlSet THEN [state |-> "queued", result |-> None]
                          ELSE fut[u]]
            /\ UNCHANGED raised
    /\ UNCHANGED <<urls, max_workers, attempt, got, order, dedupVars, sliceVars, objVars,
                   walkVars, readerVars, run>>

\* A free worker takes the next submitted task and enters fetch.
WorkerTakes ==
    /\ pc = "pool"
    /\ Cardinality(Running) < max_workers
    /\ NextQueued # 0
    /\ fut' = [fut EXCEPT ![urls[NextQueued]].state = "running"]
    /\ UNCHANGED <<pc, urls, max_workers, out, attempt, got, order, dedupVars, sliceVars,
                   objVars, walkVars, readerVars, raised, run>>

\* for attempt in range(retries + 1)   (line 115): attempts are left.
AttemptsLeft(n) == n < Retries + 1

\* lines 117-119: the GET succeeds, fetch returns r.text.
AttemptSucceeds(u) ==
    /\ pc = "pool"
    /\ fut[u].state = "running"
    /\ AttemptsLeft(attempt[u])
    /\ attempt' = [attempt EXCEPT ![u] = @ + 1]
    /\ got' = [got EXCEPT ![u] = TRUE]
    /\ fut' = [fut EXCEPT ![u] = [state |-> "done", result |-> ResponseText(u)]]
    /\ UNCHANGED <<pc, urls, max_workers, out, order, dedupVars, sliceVars, objVars,
                   walkVars, readerVars, raised, run>>

\* lines 120-124: the GET fails; after the last attempt fetch raises
\* last_exc, which the future keeps.
AttemptFails(u) ==
    /\ pc = "pool"
    /\ fut[u].state = "running"
    /\ AttemptsLeft(attempt[u])
    /\ attempt' = [attempt EXCEPT ![u] = @ + 1]
    /\ fut' = IF AttemptsLeft(attempt[u] + 1)
              THEN fut
              ELSE [fut EXCEPT ![u] = [state |-> "done", result |-> Raise("last_exc")]]
    /\ UNCHANGED <<pc, urls, max_workers, out, got, order, dedupVars, sliceVars, objVars,
                   walkVars, readerVars, raised, run>>

\* A collection that lets the future's exception through.
FutureResultUnguarded(f) == f.result

\* lines 135-138: try: out[u] = fut.result(); except Exception: out[u] = None
FutureResult(f) == IF f.result.t = "exc" THEN None ELSE f.result

\* lines 133-138: as_completed hands over a finished future.
Collect(u) ==
    /\ pc = "pool"
    /\ fut[u].state = "done"
    /\ order' = Append(order, u)
    /\ fut' = [fut EXCEPT ![u].state = "collected"]
    /\ LET r == FutureResult(fut[u])
       IN  IF r.t = "exc"
           THEN pc' = "raised" /\ raised' = TRUE /\ UNCHANGED out
           ELSE /\ out' = [i \in 1..Len(out) |-> IF out[i][1] = u THEN <<u, r>> ELSE out[i]]
                /\ UNCHANGED <<pc, raised>>
    /\ UNCHANGED <<urls, max_workers, attempt, got, dedupVars, sliceVars, objVars,
                   walkVars, readerVars, run>>

\* line 139: every future has been handed over; return out.
FetchManyReturn ==
    /\ pc = "pool"
    /\ \A u \in UrlSet : fut[u].state = "collected"
    /\ pc' = "returned"
    /\ UNCHANGED <<fetchVars, dedupVars, sliceVars, objVars, walkVars, readerVars, raised, run>>

NextFetch ==
    \/ FetchManySubmit
    \/ WorkerTakes
    \/ \E u \in UrlPool : AttemptSucceeds(u)
    \/ \E u \in UrlPool : AttemptFails(u)
    \/ \E u \in UrlPool : Collect(u)
    \/ FetchManyReturn
SpecFetch == InitFetch /\ [][NextFetch]_vars

\* C9: whatever the interleaving, fetch_many raises for no fetch that failed
\* (only for a pool of no workers), and returns a mapping whose keys are the
\* requested urls in the order requested, each with the text of its own
\* successful attempt, or None when its retries + 1 attempts all failed.
C9_FetchManyIsolatesFailures ==
    /\ raised => (pc = "raised" /\ max_workers <= 0 /\ order = <<>>)
    /\ \A u \in UrlPool : attempt[u] <= Retries + 1
    /\ pc = "returned" =>
          /\ Len(out) = Len(urls)
          /\ \A i \in 1..Len(urls) :
                /\ out[i][1] = urls[i]
                /\ out[i][2] = IF got[urls[i]] THEN ResponseText(urls[i]) ELSE None
                /\ ~got[urls[i]] => attempt[urls[i]] = Retries + 1

\* Two urls: the first failed three times, the second succeeded on its
\* second attempt and finished first.
C9_Witness ==
    /\ pc = "returned" /\ Len(urls) = 2
    /\ order = <<urls[2], urls[1]>>
    /\ attempt[urls[1]] = 3 /\ ~got[urls[1]] /\ out[1] = <<urls[1], None>>
    /\ attempt[urls[2]] = 2 /\ out[2] = <<urls[2], ResponseText(urls[2])>>

-----------------------------------------------------------------------------
(* The run: discover_assets_and_payload (lines 169-210) and main (lines    *)
(* 361-477), one action per numbered step of main.  What the network and   *)
(* the site hold is chosen when the step reads it.  run holds main's       *)
(* locals: workers, js_urls, payload_url, js_map, ext_json_urls,           *)
(* json_bodies_map, candidates (the sources that gave a candidate), and    *)
(* root_ok, whether fetch(index_url) returned.                             *)

Scripts == {"/_nuxt/a.js", "/_nuxt/b.js"}

\* The *.json references a script may hold (lines 62-63): one of the site's
\* own origin, one of another origin, and one whose host part opens a
\* bracket it never closes, on which urllib raises ValueError.
JsonRefs ==
    { [url |-> "cards.json", same_origin |-> TRUE, malformed |-> FALSE],
      [url |-> "https://cdn/x.json", same_origin |-> FALSE, malformed |-> FALSE],
      [url |-> "http://[x/a.json", same_origin |-> FALSE, malformed |-> TRUE] }

\* The text of a fetched script: the references it holds and whether it
\* yields a candidate.
ScriptTexts == [refs : SUBSET JsonRefs, yields : BOOLEAN]

\* --workers (line 368): any integer; 8 by default.
WorkerCounts == {0, 1, 8}

InitMain ==
    /\ pc = "start"
    /\ \E w \in WorkerCounts :
          run = [workers |-> w, root_ok |-> FALSE, js_urls |-> {}, payload_url |-> FALSE,
                 js_map |-> <<>>, ext_json_urls |-> {}, json_bodies_map |-> <<>>,
                 candidates |-> {}]
    /\ IdleDedup /\ IdleSlice /\ IdleObj /\ IdleWalk /\ IdleReader /\ IdleFetch
    /\ raised = FALSE

MainUnchanged ==
    UNCHANGED <<dedupVars, sliceVars, objVars, walkVars, readerVars, fetchVars>>

\* line 171: fetch(index_url) raises after its retries; nothing catches it.
DiscoverRootFails ==
    /\ pc = "start"
    /\ pc' = "aborted" /\ raised' = TRUE
    /\ UNCHANGED run
    /\ MainUnchanged

\* lines 171-210: the root document is read; the build manifest, when the
\* document names one, is fetched and parsed inside try/except; the script
\* urls of both are collected.
Discover ==
    /\ pc = "start"
    /\ \E in_html \in SUBSET Scripts, in_meta \in SUBSET Scripts,
          meta \in {"none", "ok", "unreachable", "not json"}, payload \in BOOLEAN :
          run' = [run EXCEPT !.root_ok = TRUE,
                             !.payload_url = payload,
                             !.js_urls = in_html \cup (IF meta = "ok" THEN in_meta ELSE {})]
    /\ pc' = "fetch js"
    /\ UNCHANGED raised
    /\ MainUnchanged

\* What fetch_many(urls, max_workers) returns: nothing to do for no urls,
\* ValueError from the pool for no workers, else each url's text or None.
FetchManyRaises(us, w) == us # {} /\ w <= 0

\* line 385: js_map = fetch_many(js_urls, max_workers=workers)
FetchJs ==
    /\ pc = "fetch js"
    /\ IF FetchManyRaises(run.js_urls, run.workers)
       THEN pc' = "aborted" /\ raised' = TRUE /\ UNCHANGED run
       ELSE /\ \E m \in [run.js_urls -> ScriptTexts \cup {None}] :
                  run' = [run EXCEPT !.js_map = m]
            /\ pc' = "scan refs" /\ UNCHANGED raised
    /\ MainUnchanged

\* The references of the fetched texts (lines 391-398).
RefsOf(m) == UNION {m[u].refs : u \in {x \in DOMAIN m : m[x] # None}}

\* up.urljoin (line 398) and up.urlsplit (line 403) raise on a reference.
UrlRaises(ref) == ref.malformed

\* lines 390-411: the references are collected, resolved and split by
\* origin, outside any try.
ScanRefs ==
    /\ pc = "scan refs"
    /\ IF \E ref \in RefsOf(run.js_map) : UrlRaises(ref)
       THEN pc' = "aborted" /\ raised' = TRUE /\ UNCHANGED run
       ELSE /\ run' = [run EXCEPT !.ext_json_urls = RefsOf(run.js_map)]
            /\ pc' = "fetch json" /\ UNCHANGED raised
    /\ MainUnchanged

\* lines 417-421: the same-origin urls with workers, the others with
\* max(2, workers // 2) workers.
FetchJson ==
    /\ pc = "fetch json"
    /\ LET pri == {r \in run.ext_json_urls : r.same_origin}
           sec == {r \in run.ext_json_urls : ~r.same_origin}
       IN  IF \/ FetchManyRaises(pri, run.workers)
              \/ FetchManyRaises(sec, Max(2, run.workers \div 2))
           THEN pc' = "aborted" /\ raised' = TRUE /\ UNCHANGED run
           ELSE /\ \E m \in [run.ext_json_urls -> {"json", "not json", "unreachable"}] :
                      run' = [run EXCEPT !.json_bodies_map = m]
                /\ pc' = "candidates" /\ UNCHANGED raised
    /\ MainUnchanged

\* lines 426-449: the candidates of the scripts, of the bodies that parse
\* (try/except), and of the payload when it is named, fetched and parsed
\* (try/except).
Candidates ==
    /\ pc = "candidates"
    /\ \E payload \in {"json", "not json", "unreachable"} :
          run' = [run EXCEPT !.candidates =
                     {u \in DOMAIN run.js_map : run.js_map[u] # None /\ run.js_map[u].yields}
                     \cup {r.url : r \in {x \in DOMAIN run.json_bodies_map :
                                             run.json_bodies_map[x] = "json"}}
                     \cup (IF run.payload_url /\ payload = "json" THEN {"_payload.json"} ELSE {})]
    /\ pc' = "rows"
    /\ UNCHANGED raised
    /\ MainUnchanged

\* lines 454-477: the rows are extracted, deduplicated and written.
Output ==
    /\ pc = "rows"
    /\ pc' = "written"
    /\ UNCHANGED <<run, raised>>
    /\ MainUnchanged

NextMain ==
    \/ DiscoverRootFails
    \/ Discover
    \/ FetchJs
    \/ ScanRefs
    \/ FetchJson
    \/ Candidates
    \/ Output
SpecMain == InitMain /\ [][NextMain]_vars

\* C10: a run started with at least one worker aborts only when the fetch
\* of the root document fails; after any other failure it goes on to the
\* dedup and output stage.
C10_AbortsOnlyOnRootFailure ==
    (pc = "aborted" /\ run.workers >= 1) => ~run.root_ok

=============================================================================
